---- MODULE Spec2Model ----
(***************************************************************************)
(* raspi2raspi: mirror one Raspberry Pi display onto another.              *)
(*                                                                         *)
(* The model follows main() of raspi2raspi.c statement by statement: one   *)
(* action per library call together with the check of its result, so that  *)
(* a signal can be delivered between any two of them.  signalHandler is    *)
(* the only asynchronous actor.                                            *)
(***************************************************************************)
EXTENDS Integers, Sequences, FiniteSets, TLC

\* ------------------------------------------------------------- bounds
\* options consumed by the getopt_long loop
MaxOpts == 2
\* destination geometries of SpecGeom: 0..MaxWidth x 0..MaxHeight
MaxWidth == 40
MaxHeight == 3

\* ------------------------------------------------- program constants
DEFAULT_SOURCE_DISPLAY_NUMBER == 0
DEFAULT_DESTINATION_DISPLAY_NUMBER == 5
DEFAULT_FPS == 10
bytesPerPixel == 4
MaxInt32 == 2147483647
MinInt32 == -MaxInt32 - 1

\* ------------------------------------------------ inputs (small sets)
\* atoi(optarg) of --fps: negative, zero, ordinary, and above 1000000
\* (interval 0)
FpsArgs == {-1, 0, 3, 2000000}
\* atoi(optarg) of --source / --destination
DisplayArgs == {2}
\* what vc_dispmanx_display_get_info reports for the destination
DestModes == {<<1366, 768>>}
\* real display widths and heights added to the small ranges
DisplayWidths == {640, 720, 1024, 1366, 1920, 4096}
DisplayHeights == {480, 768, 1080, 2160}
Widths == (0..MaxWidth) \cup DisplayWidths
Heights == (0..MaxHeight) \cup DisplayHeights
\* elapsed_time.tv_sec and elapsed_time.tv_usec after timersub
ElapsedSec == {0, 1}
ElapsedUsec == {0, 100000, 999999}
\* the process ID pidfile_open reports for the holder of the lock, and what
\* an uninitialised otherpid may hold
OtherPids == {4711}
GarbagePids == {0, 4711, 31337}
\* what 1000000 / 0 may leave in fps when the division does not trap
DivZeroResults == {-1, 0}
Signals == {"SIGINT", "SIGTERM"}

\* -------------------------------------------- 32-bit signed arithmetic
\* a + b in int32_t, wrapping.  The operands are bound as values of a
\* function's argument, so that each is computed once.
Add32(a, b) ==
    [x \in Int \X Int |->
        IF x[1] >= 0 /\ x[2] >= 0 /\ x[1] > MaxInt32 - x[2]
        THEN (x[1] - MaxInt32 - 1) + (x[2] - MaxInt32 - 1)
        ELSE IF x[1] < 0 /\ x[2] < 0 /\ x[1] < MinInt32 - x[2]
             THEN (x[1] + MaxInt32 + 1) + (x[2] + MaxInt32 + 1)
             ELSE x[1] + x[2]][<<a, b>>]

\* x[1] * x[2] in int32_t, wrapping (x[2] >= 0): shift and add
Mul32F[x \in Int \X Nat] ==
    IF x[2] = 0 THEN 0
    ELSE Add32(IF x[2] % 2 = 1 THEN x[1] ELSE 0,
               Mul32F[<<Add32(x[1], x[1]), x[2] \div 2>>])

\* a * b in int32_t
Mul32(a, b) == Mul32F[<<a, b>>]

\* a & b on two's complement integers
RECURSIVE And32(_, _)
And32(a, b) ==
    IF a = 0 \/ b = 0 THEN 0
    ELSE IF a = -1 THEN b
    ELSE IF b = -1 THEN a
    ELSE (a % 2) * (b % 2) + 2 * And32(a \div 2, b \div 2)

\* ~a
Not32(a) == -a - 1

\* rounds a multiple of 16 up to the next one
ALIGN_TO_16_Add16(x) == And32(Add32(x, 16), Not32(15))

\* #define ALIGN_TO_16(x) ((x + 15) & ~15)
ALIGN_TO_16(x) == And32(Add32(x, 15), Not32(15))

\* int32_t pitch = bytesPerPixel * ALIGN_TO_16(destInfo.width);
Pitch(width) == Mul32(bytesPerPixel, ALIGN_TO_16(width))

\* int32_t length = pitch * destInfo.height;
Length(p, height) == Mul32(p, height)

\* the interval in milliseconds
FrameDurationMillis(f) == 1000 \div f

\* 1000000 / fps for fps > 0
FrameDuration(f) == 1000000 \div f


\* ------------------------------------------------------------- state
VARIABLES
    pc,                     \* position of main()
    fps, frameDuration, isDaemon, sourceDisplayNumber, destDisplayNumber,
    pidfile,                \* "NULL" or "path"
    pfh,                    \* "NULL" or "held"
    run,                    \* volatile bool run
    handlers,               \* disposition of SIGINT and SIGTERM
    sourceDisplay, destDisplay, destInfo, pitch, length,
    image,                  \* "unset", "NULL", "allocated", "freed"
    sourceResource, destResource, update, element, result,
    elapsed_time,
    exitStatus,             \* -1 while the process runs
    \* the environment the process acts on
    pidFile,                \* "absent", "locked", "written", "removed"
    pidfileOpened,          \* outcome of pidfile_open: "no", "ok", "EEXIST", "error"
    daemonCalled, logOpen,
    stderrPid,              \* process ID printed on stderr, -1 if none
    released,               \* how often each resource was released
    loggedExiting,
    sleepReq,               \* argument of the iteration's usleep, 0 if not called
    \* history
    nOpts, fpsArg,          \* options consumed, the last --fps value
    sigSeen,                \* a signal ran signalHandler after both were installed
    snapAfterSig,           \* snapshots taken after that (saturates at 2)
    setupBegun,             \* vc_dispmanx_display_open has been called
    failedCall,             \* part of main() where a display call first failed
    allocFailed             \* malloc returned NULL

optVars == <<fps, frameDuration, isDaemon, sourceDisplayNumber,
             destDisplayNumber, pidfile, nOpts, fpsArg>>
lifeVars == <<pfh, pidfileOpened, daemonCalled, logOpen, stderrPid, handlers>>
sigVars == <<run, sigSeen>>
dispVars == <<sourceDisplay, destDisplay, destInfo, pitch, length, image,
              sourceResource, destResource, update, element, result,
              setupBegun>>
loopVars == <<elapsed_time, sleepReq, snapAfterSig>>
endVars == <<released, loggedExiting>>
failVars == <<failedCall, allocFailed>>
vars == <<pc, exitStatus, pidFile, optVars, lifeVars, sigVars, dispVars,
          loopVars, endVars, failVars>>

\* the variables of the C program other than run
progVars == <<pc, fps, frameDuration, isDaemon, sourceDisplayNumber,
              destDisplayNumber, pidfile, pfh, handlers, sourceDisplay,
              destDisplay, destInfo, pitch, length, image, sourceResource,
              destResource, update, element, result, elapsed_time,
              exitStatus, pidFile, pidfileOpened, daemonCalled, logOpen,
              stderrPid,
              released, loggedExiting, sleepReq>>

Terminal == {"exited", "killed", "crashed", "geomDone"}

\* the options before the command line is read
InitOpts ==
    /\ fps = DEFAULT_FPS
    /\ frameDuration = FrameDuration(DEFAULT_FPS)
    /\ isDaemon = FALSE
    /\ sourceDisplayNumber = DEFAULT_SOURCE_DISPLAY_NUMBER
    /\ destDisplayNumber = DEFAULT_DESTINATION_DISPLAY_NUMBER
    /\ pidfile = "NULL"
    /\ nOpts = 0 /\ fpsArg = DEFAULT_FPS

\* everything but pc, destInfo and the options, as main() finds it on entry
InitRest ==
    /\ pfh = "NULL"
    /\ run = TRUE
    /\ handlers = [s \in Signals |-> "SIG_DFL"]
    /\ sourceDisplay = 0 /\ destDisplay = 0
    /\ pitch = 0 /\ length = 0
    /\ image = "unset"
    /\ sourceResource = 0 /\ destResource = 0 /\ update = 0 /\ element = 0
    /\ result = 0
    /\ elapsed_time = [tv_sec |-> 0, tv_usec |-> 0]
    /\ exitStatus = -1
    /\ pidFile = "absent"
    /\ pidfileOpened = "no"
    /\ daemonCalled = FALSE /\ logOpen = FALSE
    /\ stderrPid = -1
    /\ released = [element |-> 0, sourceResource |-> 0, destResource |-> 0,
                   sourceDisplay |-> 0, destDisplay |-> 0, image |-> 0]
    /\ loggedExiting = FALSE
    /\ sleepReq = 0
    /\ sigSeen = FALSE /\ snapAfterSig = 0
    /\ setupBegun = FALSE
    /\ failedCall = "none" /\ allocFailed = FALSE

Init ==
    /\ pc = "getopt"
    /\ destInfo = <<0, 0>>
    /\ InitOpts
    /\ InitRest

\* ------------------------------------------------------ leaving main
\* exit(status)
Exit(status) ==
    /\ pc' = "exited"
    /\ exitStatus' = status
    /\ UNCHANGED pidFile

\* exitAndRemovePidFile(status, pfh): pidfile_remove if a PID file is
\* held, then exit(status)
ExitAndRemovePidFile(status) ==
    /\ pc' = "exited"
    /\ exitStatus' = status
    /\ pidFile' = IF pfh = "held" THEN "removed" ELSE pidFile

Goto(label) ==
    /\ pc' = label
    /\ UNCHANGED <<exitStatus, pidFile>>

\* the part of main() a step belongs to
Phase(at) ==
    IF at \in {"open_source", "info_source", "open_dest", "info_dest",
               "create_source", "create_dest", "update_start", "element_add",
               "update_submit"}
    THEN "setup"
    ELSE IF at \in {"snapshot", "read_data", "write_data",
                    "loop_update_start", "change_source", "loop_submit"}
         THEN "loop"
         ELSE "teardown"

\* a display/compositor call returned: remember where the first failure was
NoteCall(at, ok) ==
    failedCall' = IF ~ok /\ failedCall = "none" THEN Phase(at)
                  ELSE failedCall

\* ---------------------------------------------------- option parsing
\* one more option is left on the command line
MoreOpts == pc = "getopt" /\ nOpts < MaxOpts

Consumed == nOpts' = nOpts + 1

\* case 'd'
OptDestination ==
    /\ MoreOpts
    /\ \E n \in DisplayArgs : destDisplayNumber' = n
    /\ Consumed
    /\ Goto("getopt")
    /\ UNCHANGED <<fps, frameDuration, isDaemon, sourceDisplayNumber, pidfile,
                   fpsArg, lifeVars, sigVars, dispVars, loopVars, endVars,
                   failVars>>

\* the fps <= 0 branch: fps = 1000000 / frameDuration.  Dividing by zero
\* is undefined: the process is killed by SIGFPE, or the division yields
\* some value.
FpsFromDuration(v) ==
    IF frameDuration = 0
    THEN \/ /\ pc' = "crashed"
            /\ fps' = v
            /\ UNCHANGED <<exitStatus, pidFile>>
         \/ /\ fps' \in DivZeroResults
            /\ Goto("getopt")
    ELSE /\ fps' = 1000000 \div frameDuration
         /\ Goto("getopt")

\* case 'f'
OptFps ==
    /\ MoreOpts
    /\ \E v \in FpsArgs :
          /\ fpsArg' = v
          /\ IF v > 0
             THEN /\ fps' = v
                  /\ frameDuration' = FrameDuration(v)
                  /\ Goto("getopt")
             ELSE /\ FpsFromDuration(v)
                  /\ UNCHANGED frameDuration
    /\ Consumed
    /\ UNCHANGED <<isDaemon, sourceDisplayNumber, destDisplayNumber, pidfile,
                   lifeVars, sigVars, dispVars, loopVars, endVars, failVars>>

\* case 'h'
OptHelp ==
    /\ MoreOpts
    /\ Consumed
    /\ Exit(0)
    /\ UNCHANGED <<fps, frameDuration, isDaemon, sourceDisplayNumber,
                   destDisplayNumber, pidfile, fpsArg, lifeVars, sigVars,
                   dispVars, loopVars, endVars, failVars>>

\* case 'p'
OptPidfile ==
    /\ MoreOpts
    /\ pidfile' = "path"
    /\ Consumed
    /\ Goto("getopt")
    /\ UNCHANGED <<fps, frameDuration, isDaemon, sourceDisplayNumber,
                   destDisplayNumber, fpsArg, lifeVars, sigVars, dispVars,
                   loopVars, endVars, failVars>>

\* case 's'
OptSource ==
    /\ MoreOpts
    /\ \E n \in DisplayArgs : sourceDisplayNumber' = n
    /\ Consumed
    /\ Goto("getopt")
    /\ UNCHANGED <<fps, frameDuration, isDaemon, destDisplayNumber, pidfile,
                   fpsArg, lifeVars, sigVars, dispVars, loopVars, endVars,
                   failVars>>

\* case 'D'
OptDaemon ==
    /\ MoreOpts
    /\ isDaemon' = TRUE
    /\ Consumed
    /\ Goto("getopt")
    /\ UNCHANGED <<fps, frameDuration, sourceDisplayNumber,
                   destDisplayNumber, pidfile, fpsArg, lifeVars, sigVars,
                   dispVars, loopVars, endVars, failVars>>

\* default: an option getopt_long does not know
OptUnknown ==
    /\ MoreOpts
    /\ Consumed
    /\ Exit(1)
    /\ UNCHANGED <<fps, frameDuration, isDaemon, sourceDisplayNumber,
                   destDisplayNumber, pidfile, fpsArg, lifeVars, sigVars,
                   dispVars, loopVars, endVars, failVars>>

\* getopt_long returns -1
OptEnd ==
    /\ pc = "getopt"
    /\ Goto("pidfile_open")
    /\ UNCHANGED <<optVars, lifeVars, sigVars, dispVars, loopVars, endVars,
                   failVars>>


\* ---------------------------------------------- daemon and PID file
\* if (isDaemon) is false: the block is skipped
Foreground ==
    /\ pc = "pidfile_open"
    /\ ~isDaemon
    /\ Goto("signal_int")
    /\ UNCHANGED <<optVars, lifeVars, sigVars, dispVars, loopVars, endVars,
                   failVars>>

\* detaches before it tries the lock
PidfileOpenDetached ==
    /\ pc = "pidfile_open"
    /\ isDaemon
    /\ daemonCalled' = TRUE
    /\ IF pidfile = "NULL"
       THEN /\ Goto("pidfile_write")
            /\ UNCHANGED <<pfh, pidfileOpened, stderrPid>>
       ELSE \/ /\ pfh' = "held"
               /\ pidfileOpened' = "ok"
               /\ pidFile' = "locked"
               /\ pc' = "pidfile_write"
               /\ UNCHANGED <<stderrPid, exitStatus>>
            \/ /\ pidfileOpened' \in {"EEXIST", "error"}
               /\ stderrPid' \in OtherPids
               /\ Exit(1)
               /\ UNCHANGED pfh
    /\ UNCHANGED <<optVars, logOpen, handlers, sigVars, dispVars, loopVars,
                   endVars, failVars>>

\* if (pidfile != NULL) pfh = pidfile_open(pidfile, 0600, &otherpid)
PidfileOpen ==
    /\ pc = "pidfile_open"
    /\ isDaemon
    /\ IF pidfile = "NULL"
       THEN /\ Goto("daemon")
            /\ UNCHANGED <<pfh, pidfileOpened, stderrPid>>
       ELSE \/ /\ pfh' = "held"
               /\ pidfileOpened' = "ok"
               /\ pidFile' = "locked"
               /\ pc' = "daemon"
               /\ UNCHANGED <<stderrPid, exitStatus>>
            \/ \* another process holds the lock: otherpid is its ID
               /\ pidfileOpened' = "EEXIST"
               /\ stderrPid' \in OtherPids
               /\ Exit(1)
               /\ UNCHANGED pfh
            \/ \* any other error: otherpid was never written
               /\ pidfileOpened' = "error"
               /\ stderrPid' \in GarbagePids
               /\ Exit(1)
               /\ UNCHANGED pfh
    /\ UNCHANGED <<optVars, daemonCalled, logOpen, handlers, sigVars,
                   dispVars, loopVars, endVars, failVars>>

\* daemon(0, 0)
Daemon ==
    /\ pc = "daemon"
    /\ daemonCalled' = TRUE
    /\ \E ok \in BOOLEAN :
          IF ok THEN Goto("pidfile_write") ELSE ExitAndRemovePidFile(1)
    /\ UNCHANGED <<optVars, pfh, pidfileOpened, logOpen, stderrPid, handlers,
                   sigVars, dispVars, loopVars, endVars, failVars>>

\* if (pfh) pidfile_write(pfh); openlog(...)
PidfileWrite ==
    /\ pc = "pidfile_write"
    /\ pidFile' = IF pfh = "held" THEN "written" ELSE pidFile
    /\ logOpen' = TRUE
    /\ pc' = "signal_int"
    /\ UNCHANGED <<exitStatus, optVars, pfh, pidfileOpened, daemonCalled,
                   stderrPid, handlers, sigVars, dispVars, loopVars, endVars,
                   failVars>>

\* ---------------------------------------------------------- signals
\* signal(sig, signalHandler), and where main goes on success
Install(at, sig, next) ==
    /\ pc = at
    /\ \E ok \in BOOLEAN :
          IF ok
          THEN /\ handlers' = [handlers EXCEPT ![sig] = "signalHandler"]
               /\ Goto(next)
          ELSE /\ ExitAndRemovePidFile(1)
               /\ UNCHANGED handlers
    /\ UNCHANGED <<optVars, pfh, pidfileOpened, daemonCalled, logOpen,
                   stderrPid, sigVars, dispVars, loopVars, endVars, failVars>>

SignalInt == Install("signal_int", "SIGINT", "signal_term")

\* followed by bcm_host_init()
SignalTerm == Install("signal_term", "SIGTERM", "open_source")

\* toggles the flag
signalHandlerToggle(signalNumber) ==
    run' = IF signalNumber \in {"SIGINT", "SIGTERM"} THEN ~run ELSE run

\* static void signalHandler(int signalNumber)
signalHandler(signalNumber) ==
    run' = IF signalNumber \in {"SIGINT", "SIGTERM"} THEN FALSE ELSE run

\* SIGINT or SIGTERM reaches the process: signalHandler runs if it is
\* installed for that signal, otherwise the default action terminates
\* the process
Deliver ==
    /\ pc \notin Terminal
    /\ \E sig \in Signals :
          IF handlers[sig] = "signalHandler"
          THEN /\ signalHandler(sig)
               /\ sigSeen' = (sigSeen \/
                     \A s \in Signals : handlers[s] = "signalHandler")
               /\ UNCHANGED pc
          ELSE /\ pc' = "killed"
               /\ UNCHANGED <<run, sigSeen>>
    /\ UNCHANGED <<exitStatus, pidFile, optVars, lifeVars, dispVars,
                   loopVars, endVars, failVars>>


\* ---------------------------------------------------- display session
\* what every step from here on leaves alone
Rest == <<optVars, lifeVars, sigVars, endVars>>

\* a checked call: on failure log and exitAndRemovePidFile(EXIT_FAILURE)
Checked(ok, next) ==
    IF ok THEN Goto(next) ELSE ExitAndRemovePidFile(1)

\* sourceDisplay = vc_dispmanx_display_open(sourceDisplayNumber)
OpenSource ==
    /\ pc = "open_source"
    /\ setupBegun' = TRUE
    /\ \E h \in {0, 1} :
          /\ sourceDisplay' = h
          /\ NoteCall(pc, h # 0)
          /\ Checked(h # 0, "info_source")
    /\ UNCHANGED <<destDisplay, destInfo, pitch, length, image,
                   sourceResource, destResource, update, element, result,
                   loopVars, allocFailed, Rest>>

\* result = vc_dispmanx_display_get_info(sourceDisplay, &sourceInfo)
InfoSource ==
    /\ pc = "info_source"
    /\ \E r \in {0, -1} :
          /\ result' = r
          /\ NoteCall(pc, r = 0)
          /\ Checked(r = 0, "open_dest")
    /\ UNCHANGED <<sourceDisplay, destDisplay, destInfo, pitch, length, image,
                   sourceResource, destResource, update, element, setupBegun,
                   loopVars, allocFailed, Rest>>

\* destDisplay = vc_dispmanx_display_open(destDisplayNumber)
OpenDest ==
    /\ pc = "open_dest"
    /\ \E h \in {0, 1} :
          /\ destDisplay' = h
          /\ NoteCall(pc, h # 0)
          /\ Checked(h # 0, "info_dest")
    /\ UNCHANGED <<sourceDisplay, destInfo, pitch, length, image,
                   sourceResource, destResource, update, element, result,
                   setupBegun, loopVars, allocFailed, Rest>>

\* result = vc_dispmanx_display_get_info(destDisplay, &destInfo)
InfoDest ==
    /\ pc = "info_dest"
    /\ \/ /\ result' = 0
          /\ destInfo' \in DestModes
          /\ NoteCall(pc, TRUE)
          /\ Goto("malloc")
       \/ /\ result' = -1
          /\ NoteCall(pc, FALSE)
          /\ ExitAndRemovePidFile(1)
          /\ UNCHANGED destInfo
    /\ UNCHANGED <<sourceDisplay, destDisplay, pitch, length, image,
                   sourceResource, destResource, update, element, setupBegun,
                   loopVars, allocFailed, Rest>>

\* pitch, length, image = malloc(length)
AllocImage ==
    /\ pc = "malloc"
    /\ pitch' = Pitch(destInfo[1])
    /\ length' = Length(Pitch(destInfo[1]), destInfo[2])
    /\ \E ok \in BOOLEAN :
          /\ image' = IF ok THEN "allocated" ELSE "NULL"
          /\ allocFailed' = ~ok
          /\ Checked(ok, "create_source")
    /\ UNCHANGED <<sourceDisplay, destDisplay, destInfo, sourceResource,
                   destResource, update, element, result, setupBegun,
                   loopVars, failedCall, Rest>>

\* sourceResource = vc_dispmanx_resource_create(...): the handle is not
\* examined
CreateSource ==
    /\ pc = "create_source"
    /\ \E h \in {0, 1} :
          /\ sourceResource' = h
          /\ NoteCall(pc, h # 0)
    /\ Goto("create_dest")
    /\ UNCHANGED <<sourceDisplay, destDisplay, destInfo, pitch, length, image,
                   destResource, update, element, result, setupBegun,
                   loopVars, allocFailed, Rest>>

\* destResource = vc_dispmanx_resource_create(...): the handle is not
\* examined; the three rectangles are set
CreateDest ==
    /\ pc = "create_dest"
    /\ \E h \in {0, 1} :
          /\ destResource' = h
          /\ NoteCall(pc, h # 0)
    /\ Goto("update_start")
    /\ UNCHANGED <<sourceDisplay, destDisplay, destInfo, pitch, length, image,
                   sourceResource, update, element, result, setupBegun,
                   loopVars, allocFailed, Rest>>

\* update = vc_dispmanx_update_start(...) with its check
StartUpdate(at, next) ==
    /\ pc = at
    /\ \E h \in {0, 1} :
          /\ update' = h
          /\ NoteCall(pc, h # 0)
          /\ Checked(h # 0, next)
    /\ UNCHANGED <<sourceDisplay, destDisplay, destInfo, pitch, length, image,
                   sourceResource, destResource, element, result, setupBegun,
                   loopVars, allocFailed, Rest>>

UpdateStart == StartUpdate("update_start", "element_add")

\* element = vc_dispmanx_element_add(update, destDisplay, ...)
ElementAdd ==
    /\ pc = "element_add"
    /\ \E h \in {0, 1} :
          /\ element' = h
          /\ NoteCall(pc, h # 0)
          /\ Checked(h # 0, "update_submit")
    /\ UNCHANGED <<sourceDisplay, destDisplay, destInfo, pitch, length, image,
                   sourceResource, destResource, update, result, setupBegun,
                   loopVars, allocFailed, Rest>>

\* a call whose result is discarded
Unchecked(at, next) ==
    /\ pc = at
    /\ \E ok \in BOOLEAN : NoteCall(pc, ok)
    /\ Goto(next)
    /\ UNCHANGED <<dispVars, loopVars, allocFailed, Rest>>

\* vc_dispmanx_update_submit_sync(update)
UpdateSubmit == Unchecked("update_submit", "loop")

\* --------------------------------------------------------- mirror loop
\* while (true)
LoopTopForever ==
    /\ pc = "loop"
    /\ Goto("snapshot")
    /\ UNCHANGED <<dispVars, loopVars, failVars, Rest>>

\* while (run) { gettimeofday(&start_time, NULL);
LoopTop ==
    /\ pc = "loop"
    /\ Goto(IF run THEN "snapshot" ELSE "td_update_start")
    /\ UNCHANGED <<dispVars, loopVars, failVars, Rest>>

\* a call whose int result is tested: result != 0 is fatal
Tested(at, next) ==
    /\ pc = at
    /\ \E r \in {0, -1} :
          /\ result' = r
          /\ NoteCall(pc, r = 0)
          /\ Checked(r = 0, next)
    /\ UNCHANGED <<sourceDisplay, destDisplay, destInfo, pitch, length, image,
                   sourceResource, destResource, update, element, setupBegun,
                   elapsed_time, sleepReq, allocFailed, Rest>>

\* result = vc_dispmanx_snapshot(sourceDisplay, sourceResource, ...)
Snapshot ==
    /\ Tested("snapshot", "read_data")
    /\ snapAfterSig' = IF sigSeen /\ snapAfterSig < 2
                       THEN snapAfterSig + 1 ELSE snapAfterSig

\* result = vc_dispmanx_resource_read_data(sourceResource, ...)
ReadData ==
    /\ Tested("read_data", "write_data")
    /\ UNCHANGED snapAfterSig

\* result = vc_dispmanx_resource_write_data(destResource, ...)
WriteData ==
    /\ Tested("write_data", "loop_update_start")
    /\ UNCHANGED snapAfterSig

\* update = vc_dispmanx_update_start(10)
LoopUpdateStart == StartUpdate("loop_update_start", "change_source")

\* vc_dispmanx_element_change_source(update, element, destResource)
ChangeSource == Unchecked("change_source", "loop_submit")

\* vc_dispmanx_update_submit_sync(update)
LoopSubmit == Unchecked("loop_submit", "pace")

\* no sleep at all once the last --fps was not positive
SleepForUncapped(sec, usec) ==
    IF fpsArg > 0 /\ sec = 0 /\ usec < frameDuration
    THEN frameDuration - usec ELSE 0

\* the argument of usleep for this elapsed time, 0 when usleep is not called
SleepFor(sec, usec) ==
    IF sec = 0 /\ usec < frameDuration THEN frameDuration - usec ELSE 0

\* gettimeofday(&end_time), timersub, and the decision to sleep
Pace ==
    /\ pc = "pace"
    /\ \E sec \in ElapsedSec, usec \in ElapsedUsec :
          /\ elapsed_time' = [tv_sec |-> sec, tv_usec |-> usec]
          /\ sleepReq' = SleepFor(sec, usec)
    /\ Goto(IF sleepReq' > 0 THEN "usleep" ELSE "loop")
    /\ UNCHANGED <<dispVars, snapAfterSig, failVars, Rest>>

\* usleep returns, after the interval or interrupted by a signal
Usleep ==
    /\ pc = "usleep"
    /\ Goto("loop")
    /\ UNCHANGED <<dispVars, loopVars, failVars, Rest>>

\* ------------------------------------------------------------ teardown
\* one call of the teardown sequence; what it releases is counted
Release(at, what, next) ==
    /\ pc = at
    /\ released' = [released EXCEPT ![what] = @ + 1]
    /\ \E ok \in BOOLEAN : NoteCall(pc, ok)
    /\ Goto(next)
    /\ UNCHANGED <<optVars, lifeVars, sigVars, dispVars, loopVars,
                   loggedExiting, allocFailed>>

\* update = vc_dispmanx_update_start(0): the handle is not examined
TdUpdateStart ==
    /\ pc = "td_update_start"
    /\ \E h \in {0, 1} :
          /\ update' = h
          /\ NoteCall(pc, h # 0)
    /\ Goto("td_element_remove")
    /\ UNCHANGED <<sourceDisplay, destDisplay, destInfo, pitch, length, image,
                   sourceResource, destResource, element, result, setupBegun,
                   loopVars, allocFailed, Rest>>

\* vc_dispmanx_element_remove(update, element)
TdElementRemove == Release("td_element_remove", "element", "td_submit")

\* goes on to close the displays, leaving the resources
TdSubmitSkipsDelete == Unchecked("td_submit", "td_close_source")

\* vc_dispmanx_update_submit_sync(update)
TdSubmit == Unchecked("td_submit", "td_delete_source")

\* vc_dispmanx_resource_delete(sourceResource)
TdDeleteSource == Release("td_delete_source", "sourceResource",
                          "td_delete_dest")

\* vc_dispmanx_resource_delete(destResource)
TdDeleteDest == Release("td_delete_dest", "destResource", "td_close_source")

\* vc_dispmanx_display_close(sourceDisplay)
TdCloseSource == Release("td_close_source", "sourceDisplay", "td_close_dest")

\* vc_dispmanx_display_close(destDisplay)
TdCloseDest == Release("td_close_dest", "destDisplay", "td_free")

\* free(image)
FreeImage ==
    /\ pc = "td_free"
    /\ released' = [released EXCEPT !.image = @ + 1]
    /\ image' = "freed"
    /\ Goto("td_exit")
    /\ UNCHANGED <<sourceDisplay, destDisplay, destInfo, pitch, length,
                   sourceResource, destResource, update, element, result,
                   setupBegun, optVars, lifeVars, sigVars, loopVars,
                   loggedExiting, failVars>>

\* messageLog("exiting"); closelog(); pidfile_remove(pfh); return 0
Finish ==
    /\ pc = "td_exit"
    /\ loggedExiting' = TRUE
    /\ logOpen' = IF isDaemon THEN FALSE ELSE logOpen
    /\ pidFile' = IF pfh = "held" THEN "removed" ELSE pidFile
    /\ pc' = "exited"
    /\ exitStatus' = 0
    /\ UNCHANGED <<optVars, pfh, pidfileOpened, daemonCalled, stderrPid,
                   handlers, sigVars, dispVars, loopVars, released, failVars>>

\* ------------------------------------------------------ specification
\* the steps of main(): the getopt_long loop
MainOpts ==
    \/ OptDestination \/ OptFps \/ OptHelp \/ OptPidfile \/ OptSource
    \/ OptDaemon \/ OptUnknown \/ OptEnd

\* the steps of main(): everything after it
MainRun ==
    \/ Foreground \/ PidfileOpen \/ Daemon \/ PidfileWrite
    \/ SignalInt \/ SignalTerm
    \/ OpenSource \/ InfoSource \/ OpenDest \/ InfoDest \/ AllocImage
    \/ CreateSource \/ CreateDest \/ UpdateStart \/ ElementAdd
    \/ UpdateSubmit
    \/ LoopTop \/ Snapshot \/ ReadData \/ WriteData \/ LoopUpdateStart
    \/ ChangeSource \/ LoopSubmit \/ Pace \/ Usleep
    \/ TdUpdateStart \/ TdElementRemove \/ TdSubmit \/ TdDeleteSource
    \/ TdDeleteDest \/ TdCloseSource \/ TdCloseDest \/ FreeImage \/ Finish

Main == MainOpts \/ MainRun

Next == Main \/ Deliver

Spec == Init /\ [][Next]_vars

\* main() keeps running: every call it makes returns
FairSpec == Spec /\ WF_vars(Main)

\* ------------------------------------------- the buffer's arithmetic
\* any destination geometry, before pitch and length are computed
InitGeom ==
    /\ pc = "geom"
    /\ destInfo \in Widths \X Heights
    /\ InitOpts
    /\ InitRest

\* int32_t pitch = ...; int32_t length = ...;
ComputeLength ==
    /\ pc = "geom"
    /\ pitch' = Pitch(destInfo[1])
    /\ length' = Length(Pitch(destInfo[1]), destInfo[2])
    /\ pc' = "geomDone"
    /\ UNCHANGED <<exitStatus, pidFile, optVars, lifeVars, sigVars,
                   sourceDisplay, destDisplay, destInfo, image,
                   sourceResource, destResource, update, element, result,
                   setupBegun, loopVars, endVars, failVars>>

SpecGeom == InitGeom /\ [][ComputeLength]_vars

\* ------------------------------------------------------------- claims
AllReleasedOnce == \A k \in DOMAIN released : released[k] = 1

\* C1: every exit after display setup has begun has run the teardown
\* sequence exactly once: element removed, both resources deleted, both
\* displays closed, buffer freed.
C1_TeardownOnEveryExit ==
    (pc = "exited" /\ setupBegun) => AllReleasedOnce

\* C2: once a display/compositor call of setup or of the loop has failed,
\* the process has exited with a non-zero status: nothing runs after the
\* failed call.
C2_EveryFailureFatal ==
    failedCall \in {"setup", "loop"} => (pc = "exited" /\ exitStatus > 0)

Paced(interval) ==
    /\ sleepReq' =
          IF elapsed_time'.tv_sec = 0 /\ elapsed_time'.tv_usec < interval
          THEN interval - elapsed_time'.tv_usec
          ELSE 0
    /\ pc' = IF sleepReq' > 0 THEN "usleep" ELSE "loop"

\* a step of main() at the end of an iteration
PaceStep == pc = "pace" /\ pc' # "pace"

C5_LockBeforeDetach ==
    /\ pidfileOpened = "EEXIST" =>
          /\ pc = "exited" /\ exitStatus > 0
          /\ stderrPid \in OtherPids
          /\ ~daemonCalled
          /\ pidFile = "absent"
          /\ \A s \in Signals : handlers[s] = "SIG_DFL"
          /\ ~setupBegun /\ sourceDisplay = 0 /\ destDisplay = 0
    /\ ~isDaemon => (pidfileOpened = "no" /\ pidFile = "absent")
    /\ (daemonCalled /\ pidfile # "NULL") => pidfileOpened = "ok"

C5_Witness ==
    /\ pidfileOpened = "EEXIST"
    /\ isDaemon /\ pidfile = "path"
    /\ pc = "exited"

\* C6: for every destination geometry the stride is 4 * ceil(width / 16) *
\* 16, a multiple of 64, and the buffer length is stride * height, in the
\* code's 32-bit arithmetic.
C6_BufferLength ==
    pc = "geomDone" =>
        LET stride == 4 * ((destInfo[1] + 15) \div 16) * 16
        IN  /\ pitch = stride
            /\ pitch % 64 = 0
            /\ length = stride * destInfo[2]

C6_Witness ==
    /\ pc = "geomDone"
    /\ destInfo = <<1366, 768>>
    /\ pitch = 5504
    /\ length = 4227072

\* C7: with the last --fps positive the frame interval is 1000000 / fps,
\* and every iteration sleeps interval - elapsed if the elapsed time is
\* under a second and under the interval, else not at all.
C7_Pacing ==
    /\ [](fpsArg > 0 => frameDuration = 1000000 \div fpsArg)
    /\ [][(PaceStep /\ fpsArg > 0) => Paced(1000000 \div fpsArg)]_vars

C7_Witness ==
    /\ fpsArg = 3
    /\ pc = "usleep"
    /\ elapsed_time = [tv_sec |-> 0, tv_usec |-> 100000]
    /\ sleepReq = 233333

\* C8: run starts true; a step that changes it turns it from true to
\* false and changes nothing else of the program, so only signalHandler
\* writes it and it never returns to true.
C8_RunFlag ==
    /\ run = TRUE
    /\ [][(run' # run \/ sigSeen' # sigSeen)
            => (~run' /\ UNCHANGED progVars)]_vars
    /\ [][~run => ~run']_vars

C8_Witness ==
    /\ ~run
    /\ sigSeen
    /\ pc = "usleep"

AfterRemoval == {"td_submit", "td_delete_source", "td_delete_dest",
                 "td_close_source", "td_close_dest", "td_free", "td_exit",
                 "exited"}

\* C9: in teardown the element's removal is submitted before a resource is
\* deleted, both resources are deleted before a display is closed, nothing
\* is released twice, a completed teardown has released each of the six
\* once, and no step of the loop runs once the element is removed.
C9_TeardownOrder ==
    /\ \A k \in DOMAIN released : released[k] <= 1
    /\ (released.sourceResource + released.destResource > 0) =>
          (released.element = 1 /\ pc \in AfterRemoval \ {"td_submit"})
    /\ (released.sourceDisplay + released.destDisplay > 0) =>
          (released.sourceResource = 1 /\ released.destResource = 1)
    /\ released.element > 0 => pc \in AfterRemoval
    /\ loggedExiting => AllReleasedOnce

C9_Witness ==
    /\ pc = "exited"
    /\ loggedExiting
    /\ AllReleasedOnce

\* C10: option parsing never divides by zero and ends with fps > 0 and
\* frameDuration > 0.
C10_ParsingSafe ==
    /\ pc # "crashed"
    /\ ~(pc = "getopt" /\ nOpts > 0 /\ fpsArg <= 0 /\ frameDuration = 0)
    /\ pc = "pidfile_open" => (fps > 0 /\ frameDuration > 0)

====
